---- MODULE Spec2Model ----
(***************************************************************************)
(* BOM -> DD1750 converter (app.py, dd1750_core.py).                       *)
(*                                                                         *)
(* Text is modelled as a sequence of one-character strings, so that the    *)
(* regular expressions and string operations of the source are computed    *)
(* on characters and not assumed.  The only whitespace character of the    *)
(* model alphabet is the blank.                                            *)
(***************************************************************************)
EXTENDS Integers, Sequences, FiniteSets, TLC

VARIABLES
    lines,      \* app.py: the non-blank lines of the pages from start_page on
    li,         \* app.py: index of the next line of the scan loop
    cur,        \* app.py: the parse cursor  {"desc", "mat", "qty"}
    items,      \* app.py: the flushed records
    dedup,      \* app.py: the returned list
    pc,         \* app.py: "off" | "scan" | "done"
    pages,      \* dd1750_core.py: the stripped non-blank lines of every page
    pi,         \* dd1750_core.py: index of the page being scanned
    i,          \* dd1750_core.py: index of the line being scanned
    core_items, \* dd1750_core.py: the tuples (desc, nsn, qty) appended so far
    out,        \* dd1750_core.py: the returned BomItems
    cpc,        \* dd1750_core.py: "off" | "scan" | "done"
    path,       \* rendering: "app" (app.py generate) | "core" (generate_dd1750_from_pdf)
    item_count, \* rendering: the number of extracted records; record k is the k-th
    chunks,     \* rendering: the chunks of records, one per page
    canvas,     \* app.py make_overlay: the rows drawn on the page not yet shown
    overlay,    \* rendering: the overlay pages, each the rows drawn on it
    objs,       \* rendering: the page objects that merges write to
    writer,     \* rendering: the page objects added to the PdfWriter, in order
    output,     \* rendering: the pages of the written document
    total_pages, \* dd1750_core.py generate_dd1750_from_pdf.total_pages
    rp,         \* rendering: the page loop index
    rr,         \* app.py make_overlay: the row loop index
    rpc,        \* rendering: "off" | "start" | "draw" | "merge" | "pages" | "done"
    text,       \* _wrap_to_width: the argument text
    max_w,      \* _wrap_to_width: the argument max_w, in 1/1000 of the font size
    max_lines,  \* _wrap_to_width: the argument max_lines
    wrapped,    \* _wrap_to_width: the returned lines
    wpc,        \* _wrap_to_width: "off" | "call" | "done"
    row_it,     \* _build_overlay_page: it, the BomItem of the row (description, nsn)
    desc_lines, \* _build_overlay_page: the wrapped description of the row
    drawn,      \* _build_overlay_page: the strings drawn in the contents column
    dpc         \* _build_overlay_page: "off" | "wrap" | "draw" | "done"

bomVars == <<lines, li, cur, items, dedup, pc>>
coreVars == <<pages, pi, i, core_items, out, cpc>>
renderVars == <<path, item_count, chunks, canvas, overlay, objs, writer, output,
                total_pages, rp, rr, rpc>>
wrapVars == <<text, max_w, max_lines, wrapped, wpc>>
rowVars == <<row_it, desc_lines, drawn, dpc>>
vars == <<bomVars, coreVars, renderVars, wrapVars, rowVars>>
notBom == <<coreVars, renderVars, wrapVars, rowVars>>
notCore == <<bomVars, renderVars, wrapVars, rowVars>>
notRender == <<bomVars, coreVars, wrapVars, rowVars>>
notWrap == <<bomVars, coreVars, renderVars, rowVars>>
notRow == <<bomVars, coreVars, renderVars, wrapVars>>

----------------------------------------------------------------------------
(* Bounds of the model *)

MaxLines == 4       \* longest document of freely chosen lines
MaxBlocks == 3      \* most [marker, description, identifier, quantity] blocks
MaxCoreLen == 4     \* most lines and page breaks of a dd1750_core document
MaxStart == 1       \* largest start_page
MaxItems == 85      \* most records handed to the renderer
MaxTextLen == 5     \* longest text handed to _wrap_to_width
MaxLinesCap == 3    \* largest max_lines handed to _wrap_to_width
MaxRunA == 3        \* longest middle word of a row's description

----------------------------------------------------------------------------
(* Characters and strings *)

DigitChars == <<"0", "1", "2", "3", "4", "5", "6", "7", "8", "9">>
UpperChars == <<"A", "B", "C", "D", "E", "F", "G", "H", "I", "J", "K", "L", "M",
                "N", "O", "P", "Q", "R", "S", "T", "U", "V", "W", "X", "Y", "Z">>
LowerChars == <<"a", "b", "c", "d", "e", "f", "g", "h", "i", "j", "k", "l", "m",
                "n", "o", "p", "q", "r", "s", "t", "u", "v", "w", "x", "y", "z">>

IsDigit(c) == \E k \in 1..10 : DigitChars[k] = c
IsUpper(c) == \E k \in 1..26 : UpperChars[k] = c
IsSpace(c) == c = " "

DigitVal(c) == (CHOOSE k \in 1..10 : DigitChars[k] = c) - 1

RECURSIVE ToInt(_)
\* int(): the value of a run of decimal digits
ToInt(ds) == IF ds = <<>> THEN 0
             ELSE ToInt(SubSeq(ds, 1, Len(ds) - 1)) * 10 + DigitVal(ds[Len(ds)])

UpperOf(c) == IF \E j \in 1..26 : LowerChars[j] = c
              THEN UpperChars[CHOOSE j \in 1..26 : LowerChars[j] = c]
              ELSE c

\* str.upper()
ToUpper(s) == SubSeq([k \in 1..Len(s) |-> UpperOf(s[k])], 1, Len(s))

SetMin(S) == CHOOSE x \in S : \A y \in S : x <= y
SetMax(S) == CHOOSE x \in S : \A y \in S : y <= x

\* str.strip()
Strip(s) == LET ink == {k \in 1..Len(s) : ~IsSpace(s[k])}
            IN  IF ink = {} THEN <<>> ELSE SubSeq(s, SetMin(ink), SetMax(ink))

\* str.rstrip()
RStrip(s) == LET ink == {k \in 1..Len(s) : ~IsSpace(s[k])}
             IN  IF ink = {} THEN <<>> ELSE SubSeq(s, 1, SetMax(ink))

\* needle in s
Contains(s, needle) ==
    \E k \in 1..(Len(s) - Len(needle) + 1) :
        SubSeq(s, k, k + Len(needle) - 1) = needle

AllDigits(s) == \A k \in 1..Len(s) : IsDigit(s[k])

\* the longest run of digits that ends s
TrailingDigits(s) ==
    LET starts == {k \in 1..(Len(s) + 1) : \A j \in k..Len(s) : IsDigit(s[j])}
    IN  SubSeq(s, SetMin(starts), Len(s))

RECURSIVE CollapseSpaces(_)
\* re.sub(r"\s{2,}", " ", s) and re.sub(r"\s+", " ", s): a run of blanks
\* becomes one blank (computed on the two halves of s, then on their joint)
CollapseSpaces(s) ==
    IF Len(s) <= 1 THEN s
    ELSE LET m == Len(s) \div 2
             l == CollapseSpaces(SubSeq(s, 1, m))
             r == CollapseSpaces(SubSeq(s, m + 1, Len(s)))
         IN  IF IsSpace(l[Len(l)]) /\ IsSpace(r[1]) THEN l \o Tail(r) ELSE l \o r

Rep(c, n) == SubSeq([k \in 1..n |-> c], 1, n)

----------------------------------------------------------------------------
(* app.py: line classification *)

None == <<"None">>      \* Python's None in a text field of the cursor
NoQty == -1             \* Python's None in the quantity field of the cursor

\* LV_RE = ^\s*([A-Z])\s*$
LV_RE(s) == LET t == Strip(s) IN Len(t) = 1 /\ IsUpper(t[1])

MatMinDigits == 7
MatMaxDigits == 12
\* MAT_RE = ^\s*(\d{7,12})\s*$
MAT_RE(s) == LET t == Strip(s)
             IN  Len(t) >= MatMinDigits /\ Len(t) <= MatMaxDigits /\ AllDigits(t)
MAT_group(s) == Strip(s)

\* QTY_RE = (\d+)\s*$ , searched: the digits that end the line
QTY_RE(s) == TrailingDigits(RStrip(s)) # <<>>
QTY_group(s) == TrailingDigits(RStrip(s))

QtyTokens == { <<" ", "X", " ">>, <<" ", "U", " ">>, <<" ", "E", "A", " ">>,
               <<" ", "A", "Y", " ">>, <<"9", "G">>, <<"9", "K">>,
               <<"S", "C", "M", "C">>, <<"C", "I", "I", "C">> }

looks_like_qty_line(s) == LET u == ToUpper(s) IN \E tok \in QtyTokens : Contains(u, tok)

HeaderTokens == { <<"L", "V">>,
                  <<"D", "E", "S", "C", "R", "I", "P", "T", "I", "O", "N">>,
                  <<"W", "T", "Y">>, <<"A", "R", "C">>, <<"C", "I", "I", "C">>,
                  <<"U", "I">>, <<"S", "C", "M", "C">>, <<"A", "U", "T", "H">>,
                  <<"O", "H", " ", "Q", "T", "Y">>,
                  <<"C", "O", "M", "P", "O", "N", "E", "N", "T", " ", "O", "F", " ",
                    "E", "N", "D", " ", "I", "T", "E", "M">>,
                  <<"P", "A", "G", "E">>, <<"C", "O", "E", "I">> }

is_header_noise(s) == LET u == ToUpper(s) IN \E h \in HeaderTokens : Contains(u, h)

DescMax == 90
\* normalize_desc: collapse runs of blanks, strip, keep 90 characters
normalize_desc(s) == LET t == Strip(CollapseSpaces(s))
                     IN  SubSeq(t, 1, IF Len(t) < DescMax THEN Len(t) ELSE DescMax)

QtyCeiling == 999
\* the guard  0 <= qty <= 999  without its upper half
QtyInRange_NoCeiling(qty) == 0 <= qty
\* "hard guardrail": 0 <= qty <= 999
QtyInRange(qty) == 0 <= qty /\ qty <= QtyCeiling

----------------------------------------------------------------------------
(* app.py: extract_items_bom_style *)

BomIdle == lines = <<>> /\ li = 0 /\ cur = <<>> /\ items = <<>> /\ dedup = <<>> /\ pc = "off"
CoreIdle == pages = <<>> /\ pi = 0 /\ i = 0 /\ core_items = <<>> /\ out = <<>> /\ cpc = "off"
RenderIdle ==
    /\ path = "none" /\ item_count = 0 /\ chunks = <<>> /\ canvas = <<>> /\ overlay = <<>>
    /\ objs = <<>> /\ writer = <<>> /\ output = <<>> /\ total_pages = 0
    /\ rp = 0 /\ rr = 0 /\ rpc = "off"
WrapIdle == text = <<>> /\ max_w = 0 /\ max_lines = 0 /\ wrapped = <<>> /\ wpc = "off"
RowIdle == row_it = <<>> /\ desc_lines = <<>> /\ drawn = <<>> /\ dpc = "off"

EmptyCur == [desc |-> None, mat |-> None, qty |-> NoQty]

\* truth value of a text field: neither None nor ""
Truthy(x) == x # None /\ x # <<>>

\* flush(): the items after the cursor c is flushed (the caller resets the cursor)
flush(c, its) ==
    IF Truthy(c.desc) /\ Truthy(c.mat) /\ c.qty # NoQty /\ c.qty > 0
    THEN Append(its, [desc |-> c.desc, mat |-> c.mat, qty |-> c.qty])
    ELSE its

Key(it) == <<it.desc, it.mat, it.qty>>

RECURSIVE DedupLoop(_, _, _, _)
\* the loop over items with the set "seen"
DedupLoop(its, k, seen, acc) ==
    IF k > Len(its) THEN acc
    ELSE IF Key(its[k]) \in seen THEN DedupLoop(its, k + 1, seen, acc)
    ELSE DedupLoop(its, k + 1, seen \cup {Key(its[k])}, Append(acc, its[k]))

RECURSIVE DedupConsecutive(_)
\* a removal of duplicates that compares a record with its predecessor only
DedupConsecutive(its) ==
    IF Len(its) <= 1 THEN its
    ELSE LET front == SubSeq(its, 1, Len(its) - 1)
         IN  IF Key(its[Len(its)]) = Key(its[Len(its) - 1])
             THEN DedupConsecutive(front)
             ELSE Append(DedupConsecutive(front), its[Len(its)])
\* "Remove duplicates that happen from repeated headers/page breaks"
Dedup(its) == DedupLoop(its, 1, {}, <<>>)

DescMinLen == 3
ContMaxDesc == 80
ContMaxLine == 40

(* the documents of the model *)
L_A == <<"A">>
L_BOLT == <<"B", "O", "L", "T">>
L_NUT == <<"N", "U", "T", " ", " ", "M", "8">>
L_LONG == Rep("Z", DescMax + 1)
L_MAT1 == <<"1", "2", "3", "4", "5", "6", "7">>
L_MAT2 == <<"7", "6", "5", "4", "3", "2", "1">>
L_QTY2 == <<"E", "A", " ", "2">>
L_QTY0 == <<"E", "A", " ", "0">>
L_QTYBIG == <<"E", "A", " ", "1", "5", "0", "0", "0", "0">>
L_QTY1 == <<"X", " ", "U", " ", "E", "A", " ", "9", "G", " ", "1">>
L_SCMC == <<"S", "C", "M", "C", " ", "2">>

FreeLines == {L_A, L_BOLT, L_MAT1, L_MAT2, L_QTY2, L_QTY0, L_QTYBIG, L_SCMC}
FreeDocs == UNION {[1..n -> FreeLines] : n \in 0..MaxLines}

BlockSet == {<<L_A, d, m, q>> : d \in {L_BOLT, L_NUT, L_LONG},
                               m \in {L_MAT1, L_MAT2}, q \in {L_QTY2, L_QTY1}}
RECURSIVE Flatten(_)
Flatten(bs) == IF bs = <<>> THEN <<>> ELSE bs[1] \o Flatten(Tail(bs))
LineUniverse == FreeLines \cup UNION {{b[k] : k \in 1..4} : b \in BlockSet}
BlockDocs == {Flatten(bs) : bs \in UNION {[1..n -> BlockSet] : n \in 0..MaxBlocks}}


Padded(s) == <<" ">> \o s \o <<" ">>

\* the branch of the loop body that a stripped line s takes
Classify(s) ==
    IF s = <<>> \/ is_header_noise(s) THEN "skip"
    ELSE IF LV_RE(s) THEN "lv"
    ELSE IF MAT_RE(s) THEN "mat"
    ELSE IF looks_like_qty_line(Padded(s)) THEN "qty"
    ELSE "text"

\* what the loop body computes from a line alone, for every line of the model:
\* s = raw.strip(), the tests made on it, its branch, int(qm.group(1)),
\* mm.group(1) and normalize_desc(s)
ParseLine == [l \in LineUniverse |->
             LET s == Strip(l)
             IN  [s |-> s,
                  isHeader |-> is_header_noise(s),
                  isLv |-> LV_RE(s),
                  isMat |-> MAT_RE(s),
                  hasUnit |-> looks_like_qty_line(Padded(s)),
                  kind |-> Classify(s),
                  hasQty |-> QTY_RE(s),
                  qty |-> IF QTY_RE(s) THEN ToInt(QTY_group(s)) ELSE NoQty,
                  mat |-> MAT_group(s),
                  desc |-> normalize_desc(s)]]
\* the same table, computed once
Parsed == ParseLine @@ <<>>

Scanning == pc = "scan" /\ li <= Len(lines)
CurLine == Parsed[lines[li]]

\* if not s or is_header_noise(s): continue
HeaderLine ==
    /\ Scanning /\ CurLine.kind = "skip"
    /\ li' = li + 1
    /\ UNCHANGED <<lines, cur, items, dedup, pc, notBom>>

\* the marker branch without its flush(): the cursor is reset, nothing is kept
LvLine_NoFlush ==
    /\ Scanning /\ CurLine.kind = "lv"
    /\ cur' = EmptyCur
    /\ li' = li + 1
    /\ UNCHANGED <<lines, items, dedup, pc, notBom>>

\* if LV_RE.match(s): flush(); continue
LvLine ==
    /\ Scanning /\ CurLine.kind = "lv"
    /\ items' = flush(cur, items)
    /\ cur' = EmptyCur
    /\ li' = li + 1
    /\ UNCHANGED <<lines, dedup, pc, notBom>>

\* if mm: cur["mat"] = mm.group(1); continue
MatLine ==
    /\ Scanning /\ CurLine.kind = "mat"
    /\ cur' = [cur EXCEPT !.mat = CurLine.mat]
    /\ li' = li + 1
    /\ UNCHANGED <<lines, items, dedup, pc, notBom>>

\* if looks_like_qty_line(" " + s + " "): ...; continue
QtyLine ==
    /\ Scanning /\ CurLine.kind = "qty"
    /\ cur' = IF CurLine.hasQty /\ QtyInRange(CurLine.qty)
              THEN [cur EXCEPT !.qty = CurLine.qty]
              ELSE cur
    /\ li' = li + 1
    /\ UNCHANGED <<lines, items, dedup, pc, notBom>>

\* if cur["desc"] is None: ...; continue
DescLine ==
    /\ Scanning /\ CurLine.kind = "text" /\ cur.desc = None
    /\ cur' = IF Len(CurLine.s) >= DescMinLen /\ ~CurLine.isMat
              THEN [cur EXCEPT !.desc = CurLine.desc]
              ELSE cur
    /\ li' = li + 1
    /\ UNCHANGED <<lines, items, dedup, pc, notBom>>

\* the continuation of a wrapped description
ContLine ==
    /\ Scanning /\ CurLine.kind = "text" /\ cur.desc # None
    /\ cur' = IF /\ Truthy(cur.desc) /\ cur.mat = None
                 /\ Len(cur.desc) < ContMaxDesc /\ Len(CurLine.s) < ContMaxLine
                 /\ ~looks_like_qty_line(Padded(CurLine.s))
              THEN [cur EXCEPT !.desc = normalize_desc(cur.desc \o <<" ">> \o CurLine.s)]
              ELSE cur
    /\ li' = li + 1
    /\ UNCHANGED <<lines, items, dedup, pc, notBom>>

\* after the loop: flush(), the removal of duplicates, return dedup
Finish ==
    /\ pc = "scan" /\ li > Len(lines)
    /\ items' = flush(cur, items)
    /\ cur' = EmptyCur
    /\ dedup' = Dedup(items')
    /\ pc' = "done"
    /\ UNCHANGED <<lines, li, notBom>>

\* "lines = [l.rstrip() for l in txt.splitlines() if l.strip()]", page after page
InitBom ==
    /\ lines \in FreeDocs \cup BlockDocs
    /\ li = 1
    /\ cur = EmptyCur
    /\ items = <<>>
    /\ dedup = <<>>
    /\ pc = "scan"
    /\ CoreIdle /\ RenderIdle /\ WrapIdle /\ RowIdle

NextBom == HeaderLine \/ LvLine \/ MatLine \/ QtyLine \/ DescLine \/ ContLine \/ Finish

SpecBom == InitBom /\ [][NextBom]_vars

----------------------------------------------------------------------------
(* Claims about extract_items_bom_style *)

QtyLines == {j \in 1..Len(lines) : Parsed[lines[j]].kind = "qty" /\ Parsed[lines[j]].hasQty}

RecordValid(it) ==
    /\ it.desc # None /\ it.desc # <<>>
    /\ it.mat # None /\ it.mat # <<>>
    /\ it.qty >= 1 /\ it.qty <= QtyCeiling
    /\ \E j \in QtyLines : Parsed[lines[j]].qty = it.qty

\* C3: every record flushed or returned by extract_items_bom_style has a
\* non-empty description, a non-empty identifier and a quantity in 1..999 that is
\* the trailing integer of a quantity line of the input; the quantity held by
\* the cursor is never above 999, so a line ending in 150000 sets neither that
\* value nor a clamped one.
C3_RecordsValid ==
    /\ \A k \in 1..Len(items) : RecordValid(items[k])
    /\ \A k \in 1..Len(dedup) : RecordValid(dedup[k])
    /\ cur.qty # NoQty =>
          /\ cur.qty >= 0 /\ cur.qty <= QtyCeiling
          /\ \E j \in QtyLines : j < li /\ Parsed[lines[j]].qty = cur.qty

\* a record is returned from a document that holds a quantity line above 999
C3_Witness ==
    /\ pc = "done" /\ Len(dedup) >= 1
    /\ \E j \in QtyLines : Parsed[lines[j]].qty > QtyCeiling

FirstIdx(its) == {k \in 1..Len(its) : \A j \in 1..(k - 1) : Key(its[j]) # Key(its[k])}
NthFirst(its, n) ==
    CHOOSE k \in FirstIdx(its) : Cardinality({j \in FirstIdx(its) : j <= k}) = n

\* C5: the returned list holds no two records with the same (description,
\* identifier, quantity), and it is the flushed records with every later
\* duplicate removed, each survivor at the place of its first occurrence.
C5_DedupFirstOccurrence ==
    pc = "done" =>
        /\ \A a, b \in 1..Len(dedup) : a # b => Key(dedup[a]) # Key(dedup[b])
        /\ Len(dedup) = Cardinality(FirstIdx(items))
        /\ \A n \in 1..Len(dedup) : dedup[n] = items[NthFirst(items, n)]

\* a duplicate that is not consecutive: records X, Y, X
C5_Witness ==
    /\ pc = "done" /\ Len(items) >= 3
    /\ Key(items[1]) = Key(items[3]) /\ Key(items[1]) # Key(items[2])
    /\ Len(dedup) = 2

NBlocks == Len(lines) \div 4
BlockLine(b, k) == lines[4 * (b - 1) + k]

\* the blocks of claim C6 as it is stated
StatedBlocks ==
    /\ Len(lines) = 4 * NBlocks
    /\ \A b \in 1..NBlocks :
        /\ Parsed[BlockLine(b, 1)].isLv
        /\ Len(Parsed[BlockLine(b, 2)].s) >= DescMinLen
        /\ ~Parsed[BlockLine(b, 2)].isHeader
        /\ ~Parsed[BlockLine(b, 2)].isMat
        /\ ~Parsed[BlockLine(b, 2)].hasUnit
        /\ Parsed[BlockLine(b, 3)].isMat
        /\ Parsed[BlockLine(b, 4)].hasUnit
        /\ Parsed[BlockLine(b, 4)].hasQty
        /\ Parsed[BlockLine(b, 4)].qty >= 1
        /\ Parsed[BlockLine(b, 4)].qty <= QtyCeiling

StatedTriple(b) ==
    [desc |-> Parsed[BlockLine(b, 2)].s,
     mat |-> Parsed[BlockLine(b, 3)].s,
     qty |-> Parsed[BlockLine(b, 4)].qty]

\* C6 as stated: k blocks [marker, description, identifier, quantity] with
\* pairwise distinct triples give exactly k records, in block order, each with
\* the block's description line, identifier and quantity.
C6_BlocksVerbatim ==
    (/\ pc = "done" /\ StatedBlocks
     /\ \A a, b \in 1..NBlocks : a # b => StatedTriple(a) # StatedTriple(b))
    => dedup = [b \in 1..NBlocks |-> StatedTriple(b)]

NormalTriple(b) ==
    [desc |-> Parsed[BlockLine(b, 2)].desc,     \* normalize_desc of the line
     mat |-> Parsed[BlockLine(b, 3)].s,
     qty |-> Parsed[BlockLine(b, 4)].qty]

NormalBlocks ==
    /\ StatedBlocks
    /\ \A b \in 1..NBlocks : ~Parsed[BlockLine(b, 4)].isHeader

\* C6 as amended: when moreover no quantity line holds a header token and the
\* triples are pairwise distinct after normalize_desc, the k records carry the
\* description lines as normalize_desc returns them (runs of blanks collapsed,
\* cut to 90 characters).
C6_BlocksNormalized ==
    (/\ pc = "done" /\ NormalBlocks
     /\ \A a, b \in 1..NBlocks : a # b => NormalTriple(a) # NormalTriple(b))
    => dedup = [b \in 1..NBlocks |-> NormalTriple(b)]

\* three blocks, one with a description that normalize_desc changes
C6_Witness ==
    /\ pc = "done" /\ NormalBlocks /\ NBlocks = 3
    /\ \A a, b \in 1..NBlocks : a # b => NormalTriple(a) # NormalTriple(b)
    /\ \E b \in 1..NBlocks : NormalTriple(b).desc # StatedTriple(b).desc
    /\ Len(dedup) = 3

\* C9: a quantity line with a quantity in 1..999, met while the cursor holds a
\* description and an identifier, flushes the record and empties the cursor
\* before the next line is processed.
C9_QtyLineFlushes ==
    [][(/\ Scanning /\ CurLine.kind = "qty" /\ CurLine.hasQty
        /\ CurLine.qty >= 1 /\ CurLine.qty <= QtyCeiling
        /\ Truthy(cur.desc) /\ Truthy(cur.mat))
       => (/\ items' = Append(items, [desc |-> cur.desc, mat |-> cur.mat,
                                      qty |-> CurLine.qty])
           /\ cur' = EmptyCur)]_vars

\* C10: an identifier line met while the cursor holds an identifier flushes the
\* current record and starts a fresh one with the new identifier; the identifier
\* already captured is not overwritten within its record.
C10_MatNotOverwritten ==
    [][(Scanning /\ CurLine.kind = "mat" /\ cur.mat # None)
       => (/\ items' = flush(cur, items)
           /\ cur' = [EmptyCur EXCEPT !.mat = CurLine.mat])]_vars

----------------------------------------------------------------------------
(* dd1750_core.py: extract_items_from_pdf *)

AllSpaces(s, a, b) == \A k \in a..b : IsSpace(s[k])

\* _B_PREFIX_RE = ^B\s+(.+?)\s+(\d+)\s*$ : the places <<a, e>> where group 1
\* may start and end.  The quantity is the run of digits that ends the line; the
\* blanks after "B" are taken greedily (largest a), group 1 lazily (least e).
B_cands(s) ==
    LET t == RStrip(s)
        d == Len(t) - Len(TrailingDigits(t)) + 1
    IN  IF Len(t) = 0 \/ t[1] # "B" \/ TrailingDigits(t) = <<>> THEN {}
        ELSE {ae \in (3..(d - 2)) \X (3..(d - 2)) :
                 /\ ae[1] <= ae[2]
                 /\ AllSpaces(t, 2, ae[1] - 1)
                 /\ AllSpaces(t, ae[2] + 1, d - 1)}

B_PREFIX_RE(s) == B_cands(s) # {}
B_group1(s) ==
    LET c == B_cands(s)
        a == SetMax({ae[1] : ae \in c})
        e == SetMin({ae[2] : ae \in {x \in c : x[1] = a}})
    IN  SubSeq(s, a, e)
B_group2(s) == TrailingDigits(RStrip(s))

NsnDigits == 9
\* _NSN_RE = ^(\d{9})$
NSN_RE(s) == Len(s) = NsnDigits /\ AllDigits(s)

ControlString ==
    <<"C", "O", "M", "P", "O", "N", "E", "N", "T", " ", "L", "I", "S", "T", "I",
      "N", "G", " ", "/", " ", "H", "A", "N", "D", " ", "R", "E", "C", "E", "I",
      "P", "T">>

RECURSIVE RemoveAll(_, _)
\* str.replace(needle, ""): every occurrence, left to right
RemoveAll(s, needle) ==
    LET hits == {k \in 1..(Len(s) - Len(needle) + 1) :
                    SubSeq(s, k, k + Len(needle) - 1) = needle}
    IN  IF hits = {} THEN s
        ELSE SubSeq(s, 1, SetMin(hits) - 1)
             \o RemoveAll(SubSeq(s, SetMin(hits) + Len(needle), Len(s)), needle)

\* _clean_desc
clean_desc(desc) == Strip(RemoveAll(CollapseSpaces(Strip(desc)), ControlString))

\* re.match(r"^[A-Z]_", nxt)
IsMaterialLine(s) == Len(s) >= 2 /\ IsUpper(s[1]) /\ s[2] = "_"

\* re.search(r"\s\d+\s*$", nxt)
EndsWithQty(s) ==
    LET t == RStrip(s)
        n == Len(TrailingDigits(t))
    IN  n >= 1 /\ Len(t) > n /\ IsSpace(t[Len(t) - n])

LookAhead == 10

(* the lines of the model *)
K_ITEM == <<"B", " ", "W", " ", "2">>
K_ZERO == <<"B", " ", "W", " ", "0">>
K_BIG == <<"B", " ", "W", " ", "1", "0", "0", "0", "0", "0">>
K_CTRL == <<"B", " ">> \o ControlString \o <<" ", "3">>
K_NSN == <<"1", "2", "3", "4", "5", "6", "7", "8", "9">>
K_TEXT == <<"X">>
PageBreak == <<"FF">>

CoreLines == {K_ITEM, K_ZERO, K_BIG, K_CTRL, K_NSN, K_TEXT}

\* what the loop computes from a line alone, for every line of the model
CoreParseLine == [l \in CoreLines |->
                    [isItem |-> B_PREFIX_RE(l),
                     desc |-> IF B_PREFIX_RE(l) THEN clean_desc(B_group1(l)) ELSE <<>>,
                     qty |-> IF B_PREFIX_RE(l) THEN ToInt(B_group2(l)) ELSE 0,
                     isNsn |-> NSN_RE(l),
                     continues |-> /\ ~NSN_RE(l) /\ ~B_PREFIX_RE(l)
                                   /\ ~IsMaterialLine(l) /\ ~EndsWithQty(l)]]
\* the same table, computed once
CoreParsed == CoreParseLine @@ <<>>

\* the look ahead for the NSN from the line at index k of page lns (1-based):
\* for j in range(i + 1, min(i + 10, len(lines)))
NsnAfter(lns, k) ==
    LET last == IF k + LookAhead - 1 < Len(lns) THEN k + LookAhead - 1 ELSE Len(lns)
        hits == {j \in (k + 1)..last : CoreParsed[lns[j]].isNsn}
    IN  IF hits = {} THEN <<>> ELSE lns[SetMin(hits)]

\* the description of the item that starts at index k of page lns, with the
\* next line appended when it continues the description
DescAt(lns, k) ==
    IF k + 1 <= Len(lns) /\ CoreParsed[lns[k + 1]].continues
    THEN clean_desc(CoreParsed[lns[k]].desc \o <<" ">> \o lns[k + 1])
    ELSE CoreParsed[lns[k]].desc

CoreScanning == cpc = "scan" /\ pi <= Len(pages) /\ i <= Len(pages[pi])

\* a line that _B_PREFIX_RE matches: items.append((desc, nsn, qty))
ItemLine ==
    /\ CoreScanning /\ CoreParsed[pages[pi][i]].isItem
    /\ core_items' = Append(core_items,
                            [desc |-> DescAt(pages[pi], i),
                             nsn |-> NsnAfter(pages[pi], i),
                             qty |-> CoreParsed[pages[pi][i]].qty])
    /\ i' = i + 1
    /\ UNCHANGED <<pages, pi, out, cpc, notCore>>

\* any other line: i += 1
PlainLine ==
    /\ CoreScanning /\ ~CoreParsed[pages[pi][i]].isItem
    /\ i' = i + 1
    /\ UNCHANGED <<pages, pi, core_items, out, cpc, notCore>>

\* for p in pages: the next page
NextPage ==
    /\ cpc = "scan" /\ pi <= Len(pages) /\ i > Len(pages[pi])
    /\ pi' = pi + 1
    /\ i' = 1
    /\ UNCHANGED <<pages, core_items, out, cpc, notCore>>

\* out.append(BomItem(line_no=idx, ...)) for idx, ... in enumerate(items, start=1)
Return ==
    /\ cpc = "scan" /\ pi > Len(pages)
    /\ out' = [idx \in 1..Len(core_items) |->
                 [line_no |-> idx,
                  description |-> core_items[idx].desc,
                  nsn |-> core_items[idx].nsn,
                  qty |-> core_items[idx].qty]]
    /\ cpc' = "done"
    /\ UNCHANGED <<pages, pi, i, core_items, notCore>>

(* the documents of the model *)
CoreTexts == UNION {[1..n -> CoreLines \cup {PageBreak}] : n \in 0..MaxCoreLen}

RECURSIVE SplitPages(_)
\* the pages of a text: the lines between page breaks
SplitPages(t) ==
    LET brk == {k \in 1..Len(t) : t[k] = PageBreak}
    IN  IF brk = {} THEN <<t>>
        ELSE <<SubSeq(t, 1, SetMin(brk) - 1)>>
             \o SplitPages(SubSeq(t, SetMin(brk) + 1, Len(t)))

\* pages = pdf.pages[start_page:]
InitCore ==
    /\ \E t \in CoreTexts : pages = SplitPages(t)
    /\ \E start_page \in 0..MaxStart : pi = start_page + 1
    /\ i = 1
    /\ core_items = <<>>
    /\ out = <<>>
    /\ cpc = "scan"
    /\ BomIdle /\ RenderIdle /\ WrapIdle /\ RowIdle

NextCore == ItemLine \/ PlainLine \/ NextPage \/ Return

SpecCore == InitCore /\ [][NextCore]_vars

----------------------------------------------------------------------------
(* Claims about extract_items_from_pdf *)

\* C4: every BomItem returned by extract_items_from_pdf has a non-empty
\* description and a quantity >= 1 that is not above the sanity ceiling (99999);
\* a line "B <text> 0", a "B" line above the ceiling or a "B" line whose
\* description is empty after cleanup produces no item.
C4_CoreItemsValid ==
    cpc = "done" =>
        \A k \in 1..Len(out) :
            /\ out[k].description # <<>>
            /\ out[k].qty >= 1
            /\ out[k].qty <= 99999

\* C13: the look ahead for an item's NSN never reaches past the next
\* item-start line of the page: when extract_items_from_pdf appends the item
\* of line i and no 9-digit line stands between line i and the next item-start
\* line, the appended item has an empty nsn.
C13_NsnNotPastNextItem ==
    [][(CoreScanning /\ CoreParsed[pages[pi][i]].isItem
           /\ Len(core_items') = Len(core_items) + 1) =>
        LET lns == pages[pi]
            nexts == {j \in (i + 1)..Len(lns) : CoreParsed[lns[j]].isItem}
        IN  (/\ nexts # {}
             /\ \A j \in (i + 1)..(SetMin(nexts) - 1) : ~CoreParsed[lns[j]].isNsn)
            => core_items'[Len(core_items')].nsn = <<>>]_vars

----------------------------------------------------------------------------
(* Rendering: app.py generate (paginate, make_overlay, merge_with_template)  *)
(* and dd1750_core.py generate_dd1750_from_pdf.                              *)
(* Record k of the extracted list is the number k.  Lengths are in tenths    *)
(* of a point (1 inch = 720).                                                *)

Inch == 720
TopY == 6156        \* top = 8.55 * inch
BottomY == 1656     \* bottom = 2.30 * inch
RowH == 216         \* row_h = 0.30 * inch

\* make_overlay: per_page = int((top - bottom) / row_h) + 1
OverlayPerPage == (TopY - BottomY) \div RowH + 1

AppPerPage == 18    \* generate: paginate(items, per_page=18)
ROWS_PER_PAGE == 40

Records == SubSeq([k \in 1..item_count |-> k], 1, item_count)

\* Python's s[a:b]
Slice(s, a, b) == SubSeq(s, a + 1, IF b < Len(s) THEN b ELSE Len(s))

RECURSIVE ChunksFrom(_, _, _)
\* [items[i:i+per_page] for i in range(0, len(items), per_page)], from index k on
ChunksFrom(its, k, per_page) ==
    IF k >= Len(its) THEN <<>>
    ELSE <<Slice(its, k, k + per_page)>> \o ChunksFrom(its, k + per_page, per_page)

\* a pagination that leaves out the last, partial chunk
paginate_DropPartial(its, per_page) ==
    LET full == ChunksFrom(SubSeq(its, 1, Len(its) - (Len(its) % per_page)), 0, per_page)
    IN  IF full = <<>> THEN << <<>> >> ELSE full
\* paginate
paginate(its, per_page) ==
    LET c == ChunksFrom(its, 0, per_page)
    IN  IF c = <<>> THEN << <<>> >> ELSE c

\* math.ceil(a / b) for a >= 0, b > 0
Ceil(a, b) == IF a % b = 0 THEN a \div b ELSE a \div b + 1

TemplateLayer == [kind |-> "template", idx |-> 0]
OverlayLayer(p) == [kind |-> "overlay", idx |-> p]

\* a page object: the content layers merged into it, and how many overlay
\* merges had it as their target
TemplatePage == [layers |-> <<TemplateLayer>>, merges |-> 0]
BlankPage == [layers |-> <<>>, merges |-> 0]

\* page.merge_page(page2): page2's content is added to page
MergeInto(page, src_layers, is_overlay) ==
    [layers |-> page.layers \o src_layers,
     merges |-> page.merges + (IF is_overlay THEN 1 ELSE 0)]

\* writer.write(f): the document holds what the added page objects hold then
Written == [k \in 1..Len(writer) |-> objs[writer[k]].layers]

(* app.py *)

\* pages = paginate(items, per_page=18)
Paginate ==
    /\ rpc = "start" /\ path = "app"
    /\ chunks' = paginate(Records, AppPerPage)
    /\ rp' = 1 /\ rr' = 1
    /\ rpc' = "draw"
    /\ UNCHANGED <<path, item_count, canvas, overlay, objs, writer, output, total_pages,
                   notRender>>

\* make_overlay, one row: line_no = (p-1)*per_page + idx is drawn as box number
DrawRow ==
    /\ rpc = "draw" /\ rp <= Len(chunks) /\ rr <= Len(chunks[rp])
    /\ canvas' = Append(canvas, [box |-> (rp - 1) * OverlayPerPage + rr,
                                 rec |-> chunks[rp][rr]])
    /\ rr' = rr + 1
    /\ UNCHANGED <<path, item_count, chunks, overlay, objs, writer, output, total_pages,
                   rp, rpc, notRender>>

\* make_overlay: c.showPage() after the rows of a page
ShowPage ==
    /\ rpc = "draw" /\ rp <= Len(chunks) /\ rr > Len(chunks[rp])
    /\ overlay' = Append(overlay, canvas)
    /\ canvas' = <<>>
    /\ rp' = rp + 1 /\ rr' = 1
    /\ UNCHANGED <<path, item_count, chunks, objs, writer, output, total_pages, rpc,
                   notRender>>

\* make_overlay: c.save(); merge_with_template: base = tpl.pages[0]
Save ==
    /\ rpc = "draw" /\ rp > Len(chunks)
    /\ objs' = <<TemplatePage>>
    /\ rp' = 1
    /\ rpc' = "merge"
    /\ UNCHANGED <<path, item_count, chunks, canvas, overlay, writer, output, total_pages,
                   rr, notRender>>

\* merge_with_template, one overlay page: a blank page takes base, then ovp
MergePage ==
    /\ rpc = "merge" /\ rp <= Len(overlay)
    /\ LET merged == MergeInto(MergeInto(BlankPage, objs[1].layers, FALSE),
                               <<OverlayLayer(rp)>>, TRUE)
       IN  /\ objs' = Append(objs, merged)
           /\ writer' = Append(writer, Len(objs) + 1)
    /\ rp' = rp + 1
    /\ UNCHANGED <<path, item_count, chunks, canvas, overlay, output, total_pages, rr, rpc,
                   notRender>>

\* merge_with_template: writer.write(f)
Write ==
    /\ rpc = "merge" /\ rp > Len(overlay)
    /\ output' = Written
    /\ rpc' = "done"
    /\ UNCHANGED <<path, item_count, chunks, canvas, overlay, objs, writer, total_pages,
                   rp, rr, notRender>>

(* dd1750_core.py *)

\* _build_overlay_page: row row_idx shows str(it.line_no) of items[row_idx]
build_overlay_page(chunk) ==
    LET rows == {r \in 0..(ROWS_PER_PAGE - 1) : r < Len(chunk)}
    IN  [k \in 1..Cardinality(rows) |-> [box |-> chunk[k], rec |-> chunk[k]]]

\* the page object that output page p (0-based) is built on: page 0 of a
\* PdfReader opened anew for that page
FreshTemplate_Shared(p) == 1
FreshTemplate(p) == p + 1

\* item_count == 0: a single-page copy of the template
CoreEmpty ==
    /\ rpc = "start" /\ path = "core" /\ item_count = 0
    /\ objs' = <<TemplatePage>>
    /\ writer' = <<1>>
    /\ output' = <<TemplatePage.layers>>
    /\ rpc' = "done"
    /\ UNCHANGED <<path, item_count, chunks, canvas, overlay, total_pages, rp, rr, notRender>>

\* total_pages = math.ceil(item_count / ROWS_PER_PAGE)
CoreBegin ==
    /\ rpc = "start" /\ path = "core" /\ item_count > 0
    /\ total_pages' = Ceil(item_count, ROWS_PER_PAGE)
    /\ rp' = 0
    /\ rpc' = "pages"
    /\ UNCHANGED <<path, item_count, chunks, canvas, overlay, objs, writer, output, rr,
                   notRender>>

\* one turn of "for p in range(total_pages)"
CorePage ==
    /\ rpc = "pages" /\ rp < total_pages
    /\ LET chunk == Slice(Records, rp * ROWS_PER_PAGE, (rp + 1) * ROWS_PER_PAGE)
           id == FreshTemplate(rp)
           page == IF id <= Len(objs) THEN objs[id] ELSE TemplatePage
           merged == MergeInto(page, <<OverlayLayer(rp + 1)>>, TRUE)
       IN  /\ chunks' = Append(chunks, chunk)
           /\ overlay' = Append(overlay, build_overlay_page(chunk))
           /\ objs' = IF id <= Len(objs) THEN [objs EXCEPT ![id] = merged]
                      ELSE Append(objs, merged)
           /\ writer' = Append(writer, id)
    /\ rp' = rp + 1
    /\ UNCHANGED <<path, item_count, canvas, output, total_pages, rr, rpc, notRender>>

\* writer.write(f) after the loop
CoreWrite ==
    /\ rpc = "pages" /\ rp >= total_pages
    /\ output' = Written
    /\ rpc' = "done"
    /\ UNCHANGED <<path, item_count, chunks, canvas, overlay, objs, writer, total_pages,
                   rp, rr, notRender>>

InitRender ==
    /\ path \in {"app", "core"}
    /\ item_count \in 0..MaxItems
    /\ chunks = <<>> /\ canvas = <<>> /\ overlay = <<>>
    /\ objs = <<>> /\ writer = <<>> /\ output = <<>>
    /\ total_pages = 0 /\ rp = 0 /\ rr = 0
    /\ rpc = "start"
    /\ BomIdle /\ CoreIdle /\ WrapIdle /\ RowIdle

NextRender ==
    \/ Paginate \/ DrawRow \/ ShowPage \/ Save \/ MergePage \/ Write
    \/ CoreEmpty \/ CoreBegin \/ CorePage \/ CoreWrite

SpecRender == InitRender /\ [][NextRender]_vars

----------------------------------------------------------------------------
(* Claims about rendering *)

RowsPerPage == IF path = "app" THEN AppPerPage ELSE ROWS_PER_PAGE

\* C1: in the app.py pipeline the box number drawn for the record at chunk
\* index c and row r (0-based) is c*18 + r + 1, so the numbers drawn over the
\* whole output are 1..N in order, with no gap or reset at a page boundary.
C1_BoxNumbersContinuous ==
    (path = "app" /\ rpc = "done") =>
        \A p \in 1..Len(overlay) : \A r \in 1..Len(overlay[p]) :
            /\ overlay[p][r].box = (p - 1) * AppPerPage + (r - 1) + 1
            /\ overlay[p][r].box = overlay[p][r].rec

\* C2: the written document has ceil(N / rows_per_page) pages when N > 0 and
\* one page when N = 0, on both paths, and chunk i (0-based) holds the records
\* [i*rows_per_page, (i+1)*rows_per_page).
C2_PageCount ==
    rpc = "done" =>
        /\ item_count = 0 => Len(output) = 1
        /\ item_count > 0 => /\ Len(output) * RowsPerPage >= item_count
                             /\ (Len(output) - 1) * RowsPerPage < item_count
                             /\ Len(chunks) = Len(output)
        /\ \A c \in 1..Len(chunks) : \A k \in 1..item_count :
              (\E r \in 1..Len(chunks[c]) : chunks[c][r] = k)
              <=> ((c - 1) * RowsPerPage < k /\ k <= c * RowsPerPage)
        /\ \A c \in 1..Len(chunks) : \A r \in 1..Len(chunks[c]) :
              chunks[c][r] = (c - 1) * RowsPerPage + r

\* 45 records on the app.py path: 3 pages, the third with 9 records
C2_Witness ==
    /\ rpc = "done" /\ path = "app" /\ item_count = 45
    /\ Len(output) = 3 /\ Len(chunks[3]) = 9

\* C7: on both paths no page object is the target of more than one overlay
\* merge, and output page i carries the template and overlay i only.
C7_NoOverlayBleed ==
    /\ \A k \in 1..Len(objs) : objs[k].merges <= 1
    /\ (rpc = "done" /\ (item_count > 0 \/ path = "app")) =>
          \A k \in 1..Len(output) : output[k] = <<TemplateLayer, OverlayLayer(k)>>

\* three pages written by generate_dd1750_from_pdf
C7_Witness == rpc = "done" /\ path = "core" /\ Len(output) = 3

----------------------------------------------------------------------------
(* dd1750_core.py: _wrap_to_width *)
(* Widths are Helvetica's, in 1/1000 of the font size; max_w is in the same  *)
(* unit, so that fits(s) is  sum of the widths <= max_w.                     *)

CharWidth(c) == CASE c = "a" -> 556
                  [] c = "W" -> 944
                  [] c = " " -> 278
                  [] c = ":" -> 278
                  [] c = "N" -> 722
                  [] c = "S" -> 667
                  [] c = "..." -> 1000
                  [] OTHER -> 556

RECURSIVE stringWidth(_)
\* pdfmetrics.stringWidth(s, font, size)
stringWidth(s) ==
    IF s = <<>> THEN 0
    ELSE IF Len(s) = 1 THEN CharWidth(s[1])
    ELSE LET h == Len(s) \div 2
         IN  stringWidth(SubSeq(s, 1, h)) + stringWidth(SubSeq(s, h + 1, Len(s)))

\* fits
fits(s, mw) == stringWidth(s) <= mw

RECURSIVE SplitWords(_)
\* text.split(" ")
SplitWords(s) ==
    LET sp == {k \in 1..Len(s) : s[k] = " "}
    IN  IF sp = {} THEN <<s>>
        ELSE <<SubSeq(s, 1, SetMin(sp) - 1)>>
             \o SplitWords(SubSeq(s, SetMin(sp) + 1, Len(s)))

RECURSIVE BestPrefix(_, _, _, _, _)
\* the binary search for the longest prefix of chunk that fits
BestPrefix(chunk, lo, hi, best, mw) ==
    IF lo > hi THEN best
    ELSE LET mid == (lo + hi) \div 2
         IN  IF fits(SubSeq(chunk, 1, mid), mw)
             THEN BestPrefix(chunk, mid + 1, hi, mid, mw)
             ELSE BestPrefix(chunk, lo, mid - 1, best, mw)

RECURSIVE HardBreak(_, _, _, _)
\* "while chunk": the lines after the word is broken, and whether the
\* function returned from inside the loop
HardBreak(chunk, lns, mw, ml) ==
    IF chunk = <<>> THEN [lines |-> lns, returned |-> FALSE]
    ELSE LET best == BestPrefix(chunk, 1, Len(chunk), 1, mw)
             l2 == Append(lns, SubSeq(chunk, 1, best))
         IN  IF Len(l2) >= ml THEN [lines |-> l2, returned |-> TRUE]
             ELSE HardBreak(SubSeq(chunk, best + 1, Len(chunk)), l2, mw, ml)

\* a line wrap that loses the word that did not fit
NextCur_Lost(w, mw) == <<>>
\* cur = w if fits(w) else w
NextCur(w, mw) == IF fits(w, mw) THEN w ELSE w

RECURSIVE WrapWords(_, _, _, _, _, _)
\* "for w in words", from word k on, and the code after the loop
WrapWords(words, k, lns, c, mw, ml) ==
    IF k > Len(words)
    THEN LET l2 == IF c # <<>> THEN Append(lns, c) ELSE lns
         IN  IF Len(l2) > ml THEN SubSeq(l2, 1, ml) ELSE l2
    ELSE LET w == words[k]
             trial == IF c = <<>> THEN w ELSE c \o <<" ">> \o w
         IN  IF fits(trial, mw) THEN WrapWords(words, k + 1, lns, trial, mw, ml)
             ELSE IF c = <<>>
             THEN LET hb == HardBreak(w, lns, mw, ml)
                  IN  IF hb.returned THEN SubSeq(hb.lines, 1, ml)
                      ELSE WrapWords(words, k + 1, hb.lines, <<>>, mw, ml)
             ELSE LET l2 == Append(lns, c)
                  IN  IF Len(l2) >= ml THEN SubSeq(l2, 1, ml)
                      ELSE WrapWords(words, k + 1, l2, NextCur(w, mw), mw, ml)

\* text = re.sub(r"\s+", " ", text).strip()
NormalText(t) == Strip(CollapseSpaces(t))

\* _wrap_to_width(text, font, size, max_w, max_lines)
wrap_to_width(t, mw, ml) ==
    IF NormalText(t) = <<>> THEN << <<>> >>
    ELSE WrapWords(SplitWords(NormalText(t)), 1, <<>>, <<>>, mw, ml)

WrapChars == {"a", "W", " "}
WrapTexts == UNION {[1..k -> WrapChars] : k \in 0..MaxTextLen}
WrapWidths == {500, 1000, 1700}

\* the call
Wrap ==
    /\ wpc = "call"
    /\ wrapped' = wrap_to_width(text, max_w, max_lines)
    /\ wpc' = "done"
    /\ UNCHANGED <<text, max_w, max_lines, notWrap>>

InitWrap ==
    /\ text \in WrapTexts
    /\ max_w \in WrapWidths
    /\ max_lines \in 1..MaxLinesCap
    /\ wrapped = <<>>
    /\ wpc = "call"
    /\ BomIdle /\ CoreIdle /\ RenderIdle /\ RowIdle

NextWrap == Wrap

SpecWrap == InitWrap /\ [][NextWrap]_vars

----------------------------------------------------------------------------
(* Claims about _wrap_to_width *)

RECURSIVE Concat(_)
Concat(lns) == IF lns = <<>> THEN <<>> ELSE lns[1] \o Concat(Tail(lns))
NoSpaces(s) == SelectSeq(s, LAMBDA c : c # " ")
IsPrefix(a, b) == Len(a) <= Len(b) /\ SubSeq(b, 1, Len(a)) = a

\* the wrap with no cap on the number of lines
Untruncated == wrap_to_width(text, max_w, Len(text) + 1)

\* C8: the returned lines, concatenated and with blanks removed, are a prefix
\* of the normalized text with blanks removed, and are all of it whenever the
\* wrap without a cap needs at most max_lines lines.
C8_WrapKeepsCharacters ==
    wpc = "done" =>
        /\ IsPrefix(NoSpaces(Concat(wrapped)), NoSpaces(NormalText(text)))
        /\ Len(Untruncated) <= max_lines =>
              NoSpaces(Concat(wrapped)) = NoSpaces(NormalText(text))

\* a text of several words is wrapped on two lines or more and nothing is cut
C8_Witness ==
    /\ wpc = "done"
    /\ Len(SplitWords(NormalText(text))) >= 2
    /\ Len(wrapped) >= 2 /\ Len(Untruncated) <= max_lines
    /\ NoSpaces(Concat(wrapped)) = NoSpaces(NormalText(text))
    /\ \E k \in 1..Len(wrapped) : Len(wrapped[k]) >= 2

\* C11: when max_lines is large enough that nothing is truncated, every
\* returned line longer than one character has measured width <= max_w.
C11_LinesFit ==
    (wpc = "done" /\ Len(Untruncated) <= max_lines) =>
        \A k \in 1..Len(wrapped) :
            Len(wrapped[k]) > 1 => fits(wrapped[k], max_w)

----------------------------------------------------------------------------
(* dd1750_core.py: _build_overlay_page, the contents column of one row *)
(* Lengths are in points; a string of width w (in 1/1000 of the font size)  *)
(* drawn at size s/10 is w * s / 10000 points wide.                         *)

X_CONTENT_L == 88
X_CONTENT_R == 365
PAD_X == 3
\* max_content_w = (X_CONTENT_R - X_CONTENT_L) - 2 * PAD_X
max_content_w == (X_CONTENT_R - X_CONTENT_L) - 2 * PAD_X
WrapSize == 68      \* _wrap_to_width(it.description, FONT_MAIN, 6.8, ...)
DrawSize == 60      \* pdfmetrics.stringWidth(..., FONT_MAIN, 6.0)
MinAvail == 10      \* avail = max(10.0, ...)

\* the character U+2026
Ellipsis == "..."

\* max_content_w as _wrap_to_width's fits() sees it at size 6.8
WrapMaxW == (max_content_w * 10000) \div WrapSize

\* nsn_label
NsnLabel(nsn) == IF nsn # <<>> THEN <<"N", "S", "N", ":", " ">> \o nsn ELSE <<>>

\* pdfmetrics.stringWidth(s, FONT_MAIN, 6.0) <= max_content_w
FitsDrawn(s) == stringWidth(s) * DrawSize <= max_content_w * 10000

\* avail = max(10.0, max_content_w - reserve), in 1/10000 of a point
Avail(label) ==
    LET reserve == stringWidth(<<" ", Ellipsis, " ">> \o label) * DrawSize
        rest == max_content_w * 10000 - reserve
    IN  IF rest > MinAvail * 10000 THEN rest ELSE MinAvail * 10000

RECURSIVE Trim(_, _)
\* while trimmed and stringWidth(trimmed) > avail: trimmed = trimmed[:-1]
Trim(trimmed, avail) ==
    IF trimmed # <<>> /\ stringWidth(trimmed) * DrawSize > avail
    THEN Trim(SubSeq(trimmed, 1, Len(trimmed) - 1), avail)
    ELSE trimmed

(* the records of the model: descriptions of up to three words *)
PerLine == WrapMaxW \div CharWidth("W")
RunsW == {0, 1, PerLine - 2, PerLine, 2 * PerLine + 2}
RowDescs == {Strip(CollapseSpaces(Rep("W", k1) \o <<" ">> \o Rep("a", j)
                                  \o <<" ">> \o Rep("W", k3))) :
                k1 \in RunsW, j \in 0..MaxRunA, k3 \in RunsW}
RowNsns == {<<>>, K_NSN}

\* desc_lines = _wrap_to_width(it.description, FONT_MAIN, 6.8, max_content_w, max_lines=2)
WrapDescription ==
    /\ dpc = "wrap"
    /\ desc_lines' = wrap_to_width(row_it.description, WrapMaxW, 2)
    /\ dpc' = "draw"
    /\ UNCHANGED <<row_it, drawn, notRow>>

\* if len(desc_lines) == 1
DrawOneLine ==
    /\ dpc = "draw" /\ Len(desc_lines) = 1
    /\ drawn' = IF NsnLabel(row_it.nsn) # <<>>
                THEN <<desc_lines[1], NsnLabel(row_it.nsn)>>
                ELSE <<desc_lines[1]>>
    /\ dpc' = "done"
    /\ UNCHANGED <<row_it, desc_lines, notRow>>

\* two lines and no NSN: line2 is drawn as it is
DrawLine2 ==
    /\ dpc = "draw" /\ Len(desc_lines) # 1 /\ NsnLabel(row_it.nsn) = <<>>
    /\ drawn' = <<desc_lines[1], desc_lines[2]>>
    /\ dpc' = "done"
    /\ UNCHANGED <<row_it, desc_lines, notRow>>

\* appended = (line2 + "  " + nsn_label).strip()
Appended == Strip(desc_lines[2] \o <<" ", " ">> \o NsnLabel(row_it.nsn))

\* two lines and an NSN that fits after line2
DrawAppended ==
    /\ dpc = "draw" /\ Len(desc_lines) # 1 /\ NsnLabel(row_it.nsn) # <<>>
    /\ FitsDrawn(Appended)
    /\ drawn' = <<desc_lines[1], Appended>>
    /\ dpc' = "done"
    /\ UNCHANGED <<row_it, desc_lines, notRow>>

\* two lines and an NSN that does not fit: line2 is trimmed to make space
DrawTrimmed ==
    /\ dpc = "draw" /\ Len(desc_lines) # 1 /\ NsnLabel(row_it.nsn) # <<>>
    /\ ~FitsDrawn(Appended)
    /\ drawn' = <<desc_lines[1],
                  Strip(RStrip(Trim(desc_lines[2], Avail(NsnLabel(row_it.nsn))))
                        \o <<" ", Ellipsis, " ">> \o NsnLabel(row_it.nsn))>>
    /\ dpc' = "done"
    /\ UNCHANGED <<row_it, desc_lines, notRow>>

InitRow ==
    /\ row_it \in [description : RowDescs, nsn : RowNsns]
    /\ desc_lines = <<>>
    /\ drawn = <<>>
    /\ dpc = "wrap"
    /\ BomIdle /\ CoreIdle /\ RenderIdle /\ WrapIdle

NextRow == WrapDescription \/ DrawOneLine \/ DrawLine2 \/ DrawAppended \/ DrawTrimmed

SpecRow == InitRow /\ [][NextRow]_vars

----------------------------------------------------------------------------
(* Claims about the contents column *)

\* the lines the description needs when nothing caps them
NeededLines == Len(wrap_to_width(row_it.description, WrapMaxW, Len(row_it.description) + 1))

\* C12: whenever a description needs more than 2 lines, the text drawn for the
\* second line carries an ellipsis that marks the cut, for records with and
\* without an NSN.
C12_CutIsMarked ==
    (dpc = "done" /\ NeededLines > 2) =>
        /\ Len(drawn) = 2
        /\ \E k \in 1..Len(drawn[2]) : drawn[2][k] = Ellipsis

====
